---- MODULE Spec2Model ----
(***************************************************************************)
(* RP2040_Volume: non-blocking tone generation on one or two PWM leads,    *)
(* driven by a repeating timer of the pico-sdk.  The caller (tone,         *)
(* stop_tone, the destructor) runs statement by statement; the timer       *)
(* callback timer_cb runs in interrupt context and may fire between any    *)
(* two statements of the caller while its alarm is registered.             *)
(***************************************************************************)
EXTENDS Integers, FiniteSets, Sequences, TLC

\* ---------------------------------------------------------------- bounds
MaxDuration == 2      \* durations passed to tone() are 0..MaxDuration
MaxCb == 6            \* cap on timer_cb invocations per registered timer
NumHandles == 2       \* addresses the allocator / alarm_pool_create can hand out
MaxUninit == 3        \* largest value an uninitialised _numRepeats starts with

\* ------------------------------------------------------ program constants
TIME_MS == 0
TIME_US == 1
TOP == 1000
NoPin == 255
\* the largest value TLC represents; it stands for 2^32 - 1
U32Max == 2147483647

NULL == 0
Handles == 1..NumHandles

\* constructor arguments: the plus pin, and the minus pin or 255 for none
PinPlusArg == 2
PinMinusArg == 3
Pins == {PinPlusArg, PinMinusArg}

\* arguments of tone(): freq in Hz, volume in hundredths of a unit,
\* duration, and the 8-bit time base (2 stands for any value that is
\* neither TIME_MS nor TIME_US)
FreqVals == {500, 1000, 2000000}
VolumeVals == {-100, 5004, 12000}
DurationVals == 0..MaxDuration
TimeVals == {TIME_MS, TIME_US, 2}

\* what an unsigned division by zero may leave in the result register
DivZeroVals == {0, U32Max}

VARIABLES
  _diff, _pinPlus, _pinMinus, _sliceNum,  \* members set by the constructor
  _level, _numRepeats,                    \* members written by tone()
  _timerData, _alarmPool, _timer,         \* schedule, pool and timer handles
  heap,          \* timer_data objects: handle -> record, or NoData when not allocated
  pools,         \* alarm pools that are alive
  alarms,        \* pools holding a registered repeating alarm for _timer
  pwmLevel,      \* duty level of each pin
  pwmEnabled,    \* PWM slice enabled
  pc,            \* position of the caller
  usPerWave, duration, time,              \* locals / arguments of tone()
  atCall,        \* inside a call: the state of the instance when the call was made
  faults,        \* misuses of a collaborator or of memory during the call in progress
  cbCount,       \* invocations of timer_cb on the registered timer, 0 once it is cancelled
  cbStopAt,      \* invocation number at which timer_cb returned false, 0 if none
  snap           \* <<state at the return of stop_tone(), returns of stop_tone() in a row>>

vars == <<_diff, _pinPlus, _pinMinus, _sliceNum, _level, _numRepeats,
          _timerData, _alarmPool, _timer, heap, pools, alarms, pwmLevel,
          pwmEnabled, pc, usPerWave, duration, time, atCall, faults,
          cbCount, cbStopAt, snap>>

ctorVars == <<_diff, _pinPlus, _pinMinus, _sliceNum>>
localVars == <<usPerWave, duration, time>>
cbVars == <<cbCount, cbStopAt>>

NoData == [alive |-> FALSE]
NoTimer == [alarm_id |-> 0, pool |-> NULL, user_data |-> NULL]
NoSnap == <<>>

\* ------------------------------------------------------- pure functions

\* slice of a GPIO pin
pwm_gpio_to_slice_num(pin) == (pin \div 2) % 8

\* round(x / y) for x >= 0, y > 0, halves away from zero
RoundDiv(x, y) == (2 * x + y) \div (2 * y)

\* freq_to_us without round(): the half period truncated
freq_to_us_trunc(freq) == 1000000 \div (2 * freq)

\* half period in microseconds, rounded
freq_to_us(freq) == RoundDiv(1000000, 2 * freq)

\* lines 121-123 left out: no upper clamp
Clamp_noupper(volume) == IF volume < 0 THEN 0 ELSE volume

\* volume (hundredths) clamped to 0..100 and scaled to tenths, rounded
Clamp(volume) == IF volume > 10000 THEN 10000 ELSE IF volume < 0 THEN 0 ELSE volume
ResolveLevel(volume) == RoundDiv(Clamp(volume), 10) % 65536

\* pwm_set_gpio_level
SetLevel(lv, pin, l) == [lv EXCEPT ![pin] = l]

\* ----------------------------------------------------------- collaborators

\* operator delete: releases an allocated object; delete of NULL does nothing
Free(hp, h) == IF h # NULL /\ hp[h].alive THEN [hp EXCEPT ![h] = NoData] ELSE hp
FreeBad(hp, h) == h # NULL /\ ~hp[h].alive

\* operator new: the lowest address not in use
NewHandle(hp) == CHOOSE h \in Handles : ~hp[h].alive /\ \A g \in Handles : ~hp[g].alive => h <= g

\* cancel_repeating_timer: does nothing on a timer whose alarm_id is 0
CancelTimer(tm) == IF tm.alarm_id # 0 THEN [tm EXCEPT !.alarm_id = 0] ELSE tm
CancelAlarms(tm, al) == IF tm.alarm_id # 0 THEN al \ {tm.pool} ELSE al
CancelBad(tm, ps) == tm.alarm_id # 0 /\ tm.pool \notin ps

\* alarm_pool_create: the lowest handle not alive
NewPool(ps) == CHOOSE p \in Handles : p \notin ps /\ \A q \in Handles : q \notin ps => p <= q

\* the faults a step adds
Fault(kinds) == faults \cup kinds

\* ------------------------------------------------------------ timer_cb

ZeroLeads(td, lv) ==
  IF td.diff THEN SetLevel(SetLevel(lv, td.pinPlus, 0), td.pinMinus, 0)
  ELSE SetLevel(lv, td.pinPlus, 0)

Drive(td, lv) ==
  IF td.diff
  THEN IF td.high
       THEN SetLevel(SetLevel(lv, td.pinPlus, 0), td.pinMinus, td.level)
       ELSE SetLevel(SetLevel(lv, td.pinPlus, td.level), td.pinMinus, 0)
  ELSE IF td.high
       THEN SetLevel(lv, td.pinPlus, 0)
       ELSE SetLevel(lv, td.pinPlus, td.level)

\* timer_cb whose final tick silences the plus lead only (lines 227-229 left out)
timer_cb_plusonly(td, lv) ==
  LET r == IF td.repeats = U32Max THEN 0 ELSE td.repeats + 1
      t1 == [td EXCEPT !.repeats = r]
  IN IF r >= td.numRepeats
     THEN [td |-> t1, lv |-> SetLevel(lv, t1.pinPlus, 0), ret |-> FALSE]
     ELSE [td |-> [t1 EXCEPT !.high = ~t1.high], lv |-> Drive(t1, lv), ret |-> TRUE]

\* timer_cb with the completion test written == instead of >=
timer_cb_eq(td, lv) ==
  LET r == IF td.repeats = U32Max THEN 0 ELSE td.repeats + 1
      t1 == [td EXCEPT !.repeats = r]
  IN IF r = td.numRepeats
     THEN [td |-> t1, lv |-> ZeroLeads(t1, lv), ret |-> FALSE]
     ELSE [td |-> [t1 EXCEPT !.high = ~t1.high], lv |-> Drive(t1, lv), ret |-> TRUE]

\* timer_cb without line 249: the phase flag is never inverted
timer_cb_noflip(td, lv) ==
  LET r == IF td.repeats = U32Max THEN 0 ELSE td.repeats + 1
      t1 == [td EXCEPT !.repeats = r]
  IN IF r >= td.numRepeats
     THEN [td |-> t1, lv |-> ZeroLeads(t1, lv), ret |-> FALSE]
     ELSE [td |-> t1, lv |-> Drive(t1, lv), ret |-> TRUE]

\* timer_cb with the completion test written > instead of >=
timer_cb_gt(td, lv) ==
  LET r == IF td.repeats = U32Max THEN 0 ELSE td.repeats + 1
      t1 == [td EXCEPT !.repeats = r]
  IN IF r > td.numRepeats
     THEN [td |-> t1, lv |-> ZeroLeads(t1, lv), ret |-> FALSE]
     ELSE [td |-> [t1 EXCEPT !.high = ~t1.high], lv |-> Drive(t1, lv), ret |-> TRUE]

\* one invocation on schedule td with pin levels lv: the schedule and the
\* levels it leaves, and its return value
timer_cb(td, lv) ==
  LET r == IF td.repeats = U32Max THEN 0 ELSE td.repeats + 1
      t1 == [td EXCEPT !.repeats = r]
  IN IF r >= td.numRepeats
     THEN [td |-> t1, lv |-> ZeroLeads(t1, lv), ret |-> FALSE]
     ELSE [td |-> [t1 EXCEPT !.high = ~t1.high], lv |-> Drive(t1, lv), ret |-> TRUE]

\* the alarm of pool p fires: repeating_timer_callback calls timer_cb on
\* _timer and drops the alarm when it returns false
TimerCb ==
  \E p \in alarms :
    /\ cbCount < MaxCb
    /\ LET h == _timer.user_data
           ok == h # NULL /\ heap[h].alive /\ p \in pools
       IN IF ok
          THEN LET r == timer_cb(heap[h], pwmLevel)
               IN /\ heap' = [heap EXCEPT ![h] = r.td]
                  /\ pwmLevel' = r.lv
                  /\ cbCount' = cbCount + 1
                  /\ IF r.ret
                     THEN UNCHANGED <<_timer, alarms, cbStopAt>>
                     ELSE /\ _timer' = [_timer EXCEPT !.alarm_id = 0]
                          /\ alarms' = alarms \ {p}
                          /\ cbStopAt' = cbCount + 1
                  /\ UNCHANGED faults
          ELSE /\ faults' = Fault((IF h = NULL \/ ~heap[h].alive THEN {"use_after_free"} ELSE {})
                               \cup (IF p \notin pools THEN {"pool_destroyed"} ELSE {}))
               /\ alarms' = alarms \ {p}
               /\ cbCount' = cbCount + 1
               /\ UNCHANGED <<heap, pwmLevel, _timer, cbStopAt>>
    /\ UNCHANGED <<ctorVars, _level, _numRepeats, _timerData, _alarmPool, pools,
                   pwmEnabled, pc, localVars, atCall, snap>>

\* ---------------------------------------------------------------- tone()

\* the fields of the instance that stop_tone() is compared on
ProgState == <<pwmLevel, pwmEnabled, _level, _numRepeats, _timerData, _alarmPool,
               _timer, heap, pools, alarms>>

\* Idle: no schedule and no pool; Running: the timer is registered;
\* Completed: the timer has stopped by itself and nothing was released yet
StateName ==
  IF _timerData = NULL /\ _alarmPool = NULL THEN "idle"
  ELSE IF _timer.alarm_id # 0 THEN "running" ELSE "completed"

\* lines 102-129: the half period, the PWM configuration with the slice
\* disabled, and the level from the clamped volume
ToneCall(freq, volume, dur, t) ==
  /\ pc = "main"
  /\ usPerWave' = freq_to_us(freq)
  /\ duration' = dur
  /\ time' = t
  /\ pwmEnabled' = FALSE
  /\ _level' = ResolveLevel(volume)
  /\ atCall' = StateName
  /\ snap' = NoSnap
  /\ faults' = {}
  /\ pc' = "t131"
  /\ UNCHANGED <<ctorVars, _numRepeats, _timerData, _alarmPool, _timer, heap, pools,
                 alarms, pwmLevel, cbVars>>

\* line 131
ToneSetPlus ==
  /\ pc = "t131"
  /\ pwmLevel' = SetLevel(pwmLevel, _pinPlus, 0)
  /\ pc' = "t133"
  /\ UNCHANGED <<ctorVars, _level, _numRepeats, _timerData, _alarmPool, _timer, heap,
                 pools, alarms, pwmEnabled, localVars, atCall, faults, cbVars, snap>>

\* lines 133-135
ToneSetMinus ==
  /\ pc = "t133"
  /\ pwmLevel' = IF _diff THEN SetLevel(pwmLevel, _pinMinus, _level) ELSE pwmLevel
  /\ pc' = "t138"
  /\ UNCHANGED <<ctorVars, _level, _numRepeats, _timerData, _alarmPool, _timer, heap,
                 pools, alarms, pwmEnabled, localVars, atCall, faults, cbVars, snap>>

\* line 143 with the division made before the multiplication
ToneNumRepeats_divfirst ==
  /\ pc = "t138"
  /\ IF time \in {TIME_US, TIME_MS} /\ usPerWave = 0
     THEN /\ faults' = Fault({"div_by_zero"})
          /\ \/ /\ _numRepeats' \in DivZeroVals
                /\ pc' = "t148"
             \/ /\ pc' = "halted_tone"
                /\ UNCHANGED _numRepeats
     ELSE /\ _numRepeats' = CASE time = TIME_US -> duration \div usPerWave
                              [] time = TIME_MS -> 1000 * (duration \div usPerWave)
                              [] OTHER -> _numRepeats
          /\ pc' = "t148"
          /\ UNCHANGED faults
  /\ UNCHANGED <<ctorVars, _level, _timerData, _alarmPool, _timer, heap, pools, alarms,
                 pwmLevel, pwmEnabled, localVars, atCall, cbVars, snap>>

\* lines 138-145: the switch has no default, so any other time base leaves
\* _numRepeats as it was; a zero half period makes the division undefined
\* (some value in the result, or the program stops)
ToneNumRepeats ==
  /\ pc = "t138"
  /\ IF time \in {TIME_US, TIME_MS} /\ usPerWave = 0
     THEN /\ faults' = Fault({"div_by_zero"})
          /\ \/ /\ _numRepeats' \in DivZeroVals
                /\ pc' = "t148"
             \/ /\ pc' = "halted_tone"
                /\ UNCHANGED _numRepeats
     ELSE /\ _numRepeats' = CASE time = TIME_US -> duration \div usPerWave
                              [] time = TIME_MS -> (1000 * duration) \div usPerWave
                              [] OTHER -> _numRepeats
          /\ pc' = "t148"
          /\ UNCHANGED faults
  /\ UNCHANGED <<ctorVars, _level, _timerData, _alarmPool, _timer, heap, pools, alarms,
                 pwmLevel, pwmEnabled, localVars, atCall, cbVars, snap>>

\* line 149 left out: the old schedule is freed with its timer still registered
ToneCancel_skip ==
  /\ pc = "t148"
  /\ pc' = IF _timerData # NULL THEN "t150" ELSE "t153"
  /\ UNCHANGED <<ctorVars, _level, _numRepeats, _timerData, _alarmPool, heap, pools,
                 pwmLevel, pwmEnabled, localVars, atCall, snap, _timer, alarms, faults,
                 cbVars>>

\* lines 148-149: the running timer is cancelled first
ToneCancel ==
  /\ pc = "t148"
  /\ IF _timerData # NULL
     THEN /\ _timer' = CancelTimer(_timer)
          /\ alarms' = CancelAlarms(_timer, alarms)
          /\ faults' = Fault(IF CancelBad(_timer, pools) THEN {"cancel_dead_pool"} ELSE {})
          /\ cbCount' = 0
          /\ cbStopAt' = 0
          /\ pc' = "t150"
     ELSE /\ pc' = "t153"
          /\ UNCHANGED <<_timer, alarms, faults, cbVars>>
  /\ UNCHANGED <<ctorVars, _level, _numRepeats, _timerData, _alarmPool, heap, pools,
                 pwmLevel, pwmEnabled, localVars, atCall, snap>>

\* line 150 left out: the old schedule is never freed
ToneDelete_skip ==
  /\ pc = "t150"
  /\ pc' = "t153"
  /\ UNCHANGED <<ctorVars, _level, _numRepeats, _timerData, _alarmPool, _timer, pools,
                 alarms, pwmLevel, pwmEnabled, localVars, atCall, cbVars, snap, heap, faults>>

\* line 150: then the old schedule is freed
ToneDelete ==
  /\ pc = "t150"
  /\ heap' = Free(heap, _timerData)
  /\ faults' = Fault(IF FreeBad(heap, _timerData) THEN {"double_free"} ELSE {})
  /\ pc' = "t153"
  /\ UNCHANGED <<ctorVars, _level, _numRepeats, _timerData, _alarmPool, _timer, pools,
                 alarms, pwmLevel, pwmEnabled, localVars, atCall, cbVars, snap>>

\* line 156 with the phase flag starting high
ToneNew_high ==
  /\ pc = "t153"
  /\ \E h \in Handles : ~heap[h].alive
  /\ LET h == NewHandle(heap)
     IN /\ heap' = [heap EXCEPT ![h] =
                      [alive |-> TRUE, numRepeats |-> _numRepeats, repeats |-> 0,
                       high |-> TRUE, pinPlus |-> _pinPlus, pinMinus |-> _pinMinus,
                       sliceNum |-> _sliceNum, diff |-> _diff, level |-> _level]]
        /\ _timerData' = h
  /\ pc' = "t166"
  /\ UNCHANGED <<ctorVars, _level, _numRepeats, _alarmPool, _timer, pools, alarms,
                 pwmLevel, pwmEnabled, localVars, atCall, faults, cbVars, snap>>

\* lines 153-161: the new schedule
ToneNew ==
  /\ pc = "t153"
  /\ \E h \in Handles : ~heap[h].alive
  /\ LET h == NewHandle(heap)
     IN /\ heap' = [heap EXCEPT ![h] =
                      [alive |-> TRUE, numRepeats |-> _numRepeats, repeats |-> 0,
                       high |-> FALSE, pinPlus |-> _pinPlus, pinMinus |-> _pinMinus,
                       sliceNum |-> _sliceNum, diff |-> _diff, level |-> _level]]
        /\ _timerData' = h
  /\ pc' = "t166"
  /\ UNCHANGED <<ctorVars, _level, _numRepeats, _alarmPool, _timer, pools, alarms,
                 pwmLevel, pwmEnabled, localVars, atCall, faults, cbVars, snap>>

\* lines 166-168: the old pool is destroyed when there is one
TonePoolDestroy ==
  /\ pc = "t166"
  /\ IF _alarmPool # NULL
     THEN /\ pools' = pools \ {_alarmPool}
          /\ faults' = Fault(IF _alarmPool \notin pools THEN {"double_destroy"} ELSE {})
     ELSE UNCHANGED <<pools, faults>>
  /\ pc' = "t170"
  /\ UNCHANGED <<ctorVars, _level, _numRepeats, _timerData, _alarmPool, _timer, heap,
                 alarms, pwmLevel, pwmEnabled, localVars, atCall, cbVars, snap>>

\* lines 170-173: a pool on the fixed hardware alarm; claiming an alarm
\* that another live pool holds is a panic
TonePoolCreate ==
  /\ pc = "t170"
  /\ IF pools # {}
     THEN /\ faults' = Fault({"alarm_claimed"})
          /\ pc' = "halted_tone"
          /\ UNCHANGED <<pools, _alarmPool>>
     ELSE /\ pools' = pools \cup {NewPool(pools)}
          /\ _alarmPool' = NewPool(pools)
          /\ pc' = "t176"
          /\ UNCHANGED faults
  /\ UNCHANGED <<ctorVars, _level, _numRepeats, _timerData, _timer, heap, alarms,
                 pwmLevel, pwmEnabled, localVars, atCall, cbVars, snap>>

\* lines 176-177: the repeating timer, with the schedule as user data
ToneAddTimer ==
  /\ pc = "t176"
  /\ _timer' = [alarm_id |-> 1, pool |-> _alarmPool, user_data |-> _timerData]
  /\ alarms' = alarms \cup {_alarmPool}
  /\ faults' = Fault(IF usPerWave = 0 THEN {"zero_period"} ELSE {})
  /\ cbCount' = 0
  /\ cbStopAt' = 0
  /\ pc' = "t179"
  /\ UNCHANGED <<ctorVars, _level, _numRepeats, _timerData, _alarmPool, heap, pools,
                 pwmLevel, pwmEnabled, localVars, atCall, snap>>

\* lines 179-182: counter reset, slice enabled, return
ToneEnable ==
  /\ pc = "t179"
  /\ pwmEnabled' = TRUE
  /\ usPerWave' = 0
  /\ duration' = 0
  /\ time' = 0
  /\ atCall' = "none"
  /\ faults' = {}
  /\ pc' = "main"
  /\ UNCHANGED <<ctorVars, _level, _numRepeats, _timerData, _alarmPool, _timer, heap,
                 pools, alarms, pwmLevel, cbVars, snap>>

\* ------------------------------------------------------------ stop_tone()

\* line 187 left out: the timer is not cancelled
StopCall_nocancel ==
  /\ pc = "main"
  /\ faults' = {}
  /\ atCall' = StateName
  /\ pc' = "s188"
  /\ UNCHANGED <<ctorVars, _level, _numRepeats, _timerData, _alarmPool, heap, pools,
                 pwmLevel, pwmEnabled, localVars, snap, _timer, alarms, cbVars>>

\* line 187: cancel_timer()
StopCall ==
  /\ pc = "main"
  /\ _timer' = CancelTimer(_timer)
  /\ alarms' = CancelAlarms(_timer, alarms)
  /\ faults' = IF CancelBad(_timer, pools) THEN {"cancel_dead_pool"} ELSE {}
  /\ atCall' = StateName
  /\ cbCount' = 0
  /\ cbStopAt' = 0
  /\ pc' = "s188"
  /\ UNCHANGED <<ctorVars, _level, _numRepeats, _timerData, _alarmPool, heap, pools,
                 pwmLevel, pwmEnabled, localVars, snap>>

\* line 189 left out: the pointer to the freed schedule is kept
StopDelete_keep ==
  /\ pc = "s188"
  /\ heap' = Free(heap, _timerData)
  /\ faults' = Fault(IF FreeBad(heap, _timerData) THEN {"double_free"} ELSE {})
  /\ pc' = "s190"
  /\ UNCHANGED <<ctorVars, _level, _numRepeats, _alarmPool, _timer, pools, alarms,
                 pwmLevel, pwmEnabled, localVars, atCall, cbVars, snap, _timerData>>

\* lines 188-189
StopDelete ==
  /\ pc = "s188"
  /\ heap' = Free(heap, _timerData)
  /\ faults' = Fault(IF FreeBad(heap, _timerData) THEN {"double_free"} ELSE {})
  /\ _timerData' = NULL
  /\ pc' = "s190"
  /\ UNCHANGED <<ctorVars, _level, _numRepeats, _alarmPool, _timer, pools, alarms,
                 pwmLevel, pwmEnabled, localVars, atCall, cbVars, snap>>

\* line 191 left out: the handle of the destroyed pool is kept
StopPoolDestroy_keep ==
  /\ pc = "s190"
  /\ pools' = pools \ {_alarmPool}
  /\ faults' = Fault(IF _alarmPool = NULL THEN {"destroy_null"}
                 ELSE IF _alarmPool \notin pools THEN {"double_destroy"} ELSE {})
  /\ \/ pc' = "s194"
     \/ /\ _alarmPool = NULL
        /\ pc' = "halted_stop"
  /\ UNCHANGED <<ctorVars, _level, _numRepeats, _timerData, _timer, heap, alarms,
                 pwmLevel, pwmEnabled, localVars, atCall, cbVars, snap, _alarmPool>>

\* lines 190-191: the pool is destroyed whether or not there is one;
\* alarm_pool_destroy dereferences its argument, so on NULL the call is
\* undefined (it may come back, or the program stops in it)
StopPoolDestroy ==
  /\ pc = "s190"
  /\ pools' = pools \ {_alarmPool}
  /\ faults' = Fault(IF _alarmPool = NULL THEN {"destroy_null"}
                 ELSE IF _alarmPool \notin pools THEN {"double_destroy"} ELSE {})
  /\ \/ /\ _alarmPool' = NULL
        /\ pc' = "s194"
     \/ /\ _alarmPool = NULL
        /\ pc' = "halted_stop"
        /\ UNCHANGED _alarmPool
  /\ UNCHANGED <<ctorVars, _level, _numRepeats, _timerData, _timer, heap, alarms,
                 pwmLevel, pwmEnabled, localVars, atCall, cbVars, snap>>

\* lines 194-198: both leads low, return
StopLevels ==
  /\ pc = "s194"
  /\ pwmLevel' = IF _diff THEN SetLevel(SetLevel(pwmLevel, _pinPlus, 0), _pinMinus, 0)
                 ELSE SetLevel(pwmLevel, _pinPlus, 0)
  /\ atCall' = "none"
  /\ faults' = {}
  /\ pc' = "main"
  /\ UNCHANGED <<ctorVars, _level, _numRepeats, _timerData, _alarmPool, _timer, heap,
                 pools, alarms, pwmEnabled, localVars, cbVars>>
  /\ snap' = IF snap = NoSnap THEN <<ProgState', 1>> ELSE <<snap[1], 2>>

\* ------------------------------------------------------- ~RP2040_Volume()

\* line 87
DtorCall ==
  /\ pc = "main"
  /\ _timer' = CancelTimer(_timer)
  /\ alarms' = CancelAlarms(_timer, alarms)
  /\ faults' = IF CancelBad(_timer, pools) THEN {"cancel_dead_pool"} ELSE {}
  /\ atCall' = StateName
  /\ snap' = NoSnap
  /\ cbCount' = 0
  /\ cbStopAt' = 0
  /\ pc' = "d88"
  /\ UNCHANGED <<ctorVars, _level, _numRepeats, _timerData, _alarmPool, heap, pools,
                 pwmLevel, pwmEnabled, localVars>>

\* line 88
DtorDelete ==
  /\ pc = "d88"
  /\ heap' = Free(heap, _timerData)
  /\ faults' = Fault(IF FreeBad(heap, _timerData) THEN {"double_free"} ELSE {})
  /\ pc' = "d89"
  /\ UNCHANGED <<ctorVars, _level, _numRepeats, _timerData, _alarmPool, _timer, pools,
                 alarms, pwmLevel, pwmEnabled, localVars, atCall, cbVars, snap>>

\* line 89: as in stop_tone(), the pool handle is not tested
DtorPoolDestroy ==
  /\ pc = "d89"
  /\ pools' = pools \ {_alarmPool}
  /\ faults' = Fault(IF _alarmPool = NULL THEN {"destroy_null"}
                 ELSE IF _alarmPool \notin pools THEN {"double_destroy"} ELSE {})
  /\ \/ pc' = "destroyed"
     \/ /\ _alarmPool = NULL
        /\ pc' = "halted_dtor"
  /\ UNCHANGED <<ctorVars, _level, _numRepeats, _timerData, _alarmPool, _timer, heap,
                 alarms, pwmLevel, pwmEnabled, localVars, atCall, cbVars, snap>>

\* ------------------------------------------------------------ the program

\* the state after RP2040_Volume(pin_plus, pin_minus), lines 59-83 and the
\* member initialisers of lines 201-210; _level and _numRepeats have none
Init ==
  /\ \E pin_minus \in {PinMinusArg, NoPin} :
       /\ _diff = (pin_minus # NoPin)
       /\ _pinPlus = PinPlusArg
       /\ _pinMinus = pin_minus
       /\ _sliceNum = pwm_gpio_to_slice_num(PinPlusArg)
       /\ pin_minus # NoPin => pwm_gpio_to_slice_num(pin_minus) = pwm_gpio_to_slice_num(PinPlusArg)
  /\ _level \in {0, TOP}
  /\ _numRepeats \in {0, MaxUninit}
  /\ _timerData = NULL
  /\ _alarmPool = NULL
  /\ _timer = NoTimer
  /\ heap = [h \in Handles |-> NoData]
  /\ pools = {}
  /\ alarms = {}
  /\ pwmLevel = [p \in Pins |-> 0]
  /\ pwmEnabled = FALSE
  /\ pc = "main"
  /\ usPerWave = 0
  /\ duration = 0
  /\ time = 0
  /\ atCall = "none"
  /\ faults = {}
  /\ cbCount = 0
  /\ cbStopAt = 0
  /\ snap = NoSnap

Tone == \E freq \in FreqVals, volume \in VolumeVals, dur \in DurationVals, t \in TimeVals :
          ToneCall(freq, volume, dur, t)

Next ==
  \/ Tone
  \/ ToneSetPlus
  \/ ToneSetMinus
  \/ ToneNumRepeats
  \/ ToneCancel
  \/ ToneDelete
  \/ ToneNew
  \/ TonePoolDestroy
  \/ TonePoolCreate
  \/ ToneAddTimer
  \/ ToneEnable
  \/ StopCall
  \/ StopDelete
  \/ StopPoolDestroy
  \/ StopLevels
  \/ DtorCall
  \/ DtorDelete
  \/ DtorPoolDestroy
  \/ TimerCb

Spec == Init /\ [][Next]_vars

\* ================================================================ claims

LeadsZero == pwmLevel[_pinPlus] = 0 /\ (_diff => pwmLevel[_pinMinus] = 0)

\* the timer has been registered by tone() and not been cancelled since
\* (it may have stopped by itself)
TimerLive == _timer.alarm_id # 0 \/ cbStopAt # 0

\* the schedule the registered timer runs on
SchedAlive == _timer.user_data # NULL /\ heap[_timer.user_data].alive
Sched == heap[_timer.user_data]

\* no later call has touched the leads since the timer was registered
NoCallSince == pc \in {"main", "t179"}

\* C1 (as claimed): a tone with total toggle count N becomes idle exactly at
\* callback invocation number N, for every N >= 0: that invocation returns
\* false, none before it does, none follows it, and the leads are then at 0.
C1_StopsAtN ==
  TimerLive =>
    /\ SchedAlive
    /\ cbStopAt # 0 =>
         /\ cbStopAt = Sched.numRepeats
         /\ cbCount = cbStopAt
         /\ NoCallSince => LeadsZero
    /\ cbStopAt = 0 => cbCount <= Sched.numRepeats

\* the invocation at which a schedule of n toggles stops
StopInvocation(n) == IF n = 0 THEN 1 ELSE n

\* C1 (amended): a tone with total toggle count N becomes idle exactly at
\* callback invocation number max(N, 1): that invocation returns false and
\* drops the alarm, none before it does, none follows it, and until the next
\* call the leads are at 0.  Whether an invocation is that one does not
\* depend on the phase flag.
C1_StopsAtMaxN1 ==
  TimerLive =>
    /\ SchedAlive
    /\ \A hi \in BOOLEAN :
         LET r == timer_cb([Sched EXCEPT !.high = hi], pwmLevel)
         IN /\ r.ret = (Sched.repeats + 1 < Sched.numRepeats)
            /\ ~r.ret => r.lv[_pinPlus] = 0 /\ (_diff => r.lv[_pinMinus] = 0)
    /\ cbStopAt # 0 =>
         /\ cbStopAt = StopInvocation(Sched.numRepeats)
         /\ cbCount = cbStopAt
         /\ _timer.alarm_id = 0 /\ alarms = {}
         /\ NoCallSince => LeadsZero
    /\ cbStopAt = 0 =>
         /\ cbCount < StopInvocation(Sched.numRepeats)
         /\ alarms = {_timer.pool}

\* a differential tone of two toggles has stopped at its second invocation
C1_Witness ==
  /\ _diff /\ pc = "main" /\ cbStopAt = 2
  /\ SchedAlive /\ Sched.numRepeats = 2 /\ Sched.level > 0

AliveData == {h \in Handles : heap[h].alive}

\* C2: at most one alarm pool, one registered timer and one timer_data are
\* alive at any moment, nothing alive is unreferenced (no leak), nothing is
\* released twice, the destructor leaves nothing alive, and when tone()
\* returns exactly one schedule exists, the one it has just made.
C2_OneSchedule ==
  /\ Cardinality(pools) <= 1
  /\ Cardinality(alarms) <= 1
  /\ Cardinality(AliveData) <= 1
  /\ pools \subseteq {_alarmPool}
  /\ AliveData \subseteq {_timerData}
  /\ alarms \subseteq {_timer.pool} \cap pools
  /\ alarms # {} => _timer.alarm_id # 0
  /\ faults \cap {"double_free", "double_destroy", "cancel_dead_pool", "alarm_claimed"} = {}
  /\ pc \in {"t179", "main"} /\ _timerData # NULL =>
       /\ AliveData = {_timerData}
       /\ pools = {_alarmPool}
       /\ _timer.user_data = _timerData /\ _timer.pool = _alarmPool
       /\ alarms = IF _timer.alarm_id # 0 THEN {_alarmPool} ELSE {}
  /\ pc = "destroyed" => pools = {} /\ AliveData = {} /\ alarms = {}

\* tone() called on a Running tone is about to return with the new schedule
C2_Witness ==
  /\ pc = "t179" /\ atCall = "running"
  /\ AliveData = {_timerData} /\ pools = {_alarmPool} /\ alarms = {_alarmPool}

\* the caller is about to free the schedule or to destroy the pool
AtRelease == pc \in {"t150", "t166", "s188", "s190", "d88", "d89"}

\* C3: on every path that frees the schedule or destroys the pool the timer
\* has been cancelled before, so a registered timer always has its schedule
\* allocated and its pool alive, and no invocation of timer_cb touches a
\* freed timer_data or runs on a destroyed pool.
C3_CancelBeforeFree ==
  /\ AtRelease => alarms = {} /\ _timer.alarm_id = 0
  /\ alarms # {} => SchedAlive /\ alarms \subseteq pools
  /\ faults \cap {"use_after_free", "pool_destroyed", "cancel_dead_pool"} = {}

\* the old schedule's callback has fired inside a superseding tone(), after
\* line 131 and before the cancel of line 149
C3_Witness ==
  /\ pc = "t148" /\ atCall = "running"
  /\ alarms # {} /\ pwmLevel[_pinPlus] > 0

InStop == pc \in {"s188", "s190", "s194", "halted_stop"}

\* C4: stop_tone() on an idle instance reaches no error state: it hands the
\* timer mechanism no null handle, it does not stop in a collaborator, and
\* the duty levels stay what they were (0 on every lead).
C4_StopIdleSafe ==
  InStop /\ atCall = "idle" =>
    /\ "destroy_null" \notin faults
    /\ pc # "halted_stop"
    /\ LeadsZero

\* what stop_tone() leaves: leads low, no schedule, no pool, no timer
Stopped ==
  /\ LeadsZero
  /\ _timerData = NULL /\ AliveData = {}
  /\ _alarmPool = NULL /\ pools = {}
  /\ _timer.alarm_id = 0 /\ alarms = {}

C6_DtorLikeStop ==
  pc \in {"destroyed", "halted_dtor"} =>
    /\ LeadsZero
    /\ pools = {} /\ alarms = {} /\ AliveData = {} /\ _timer.alarm_id = 0
    /\ "destroy_null" \notin faults
    /\ pc # "halted_dtor"

\* no call is in progress and no timer is registered
NotRunning == pc = "main" /\ _timer.alarm_id = 0

\* C7 (as claimed): the schedule and its handles live exactly as long as the
\* tone: whenever no tone is Running the instance holds no timer_data and no
\* alarm pool.
C7_NothingHeldUnlessRunning ==
  NotRunning =>
    /\ _timerData = NULL /\ AliveData = {}
    /\ _alarmPool = NULL /\ pools = {}

\* C7 (amended): natural completion only drops the timer; the schedule and
\* the pool stay allocated, owned by the instance, until the next tone(),
\* stop_tone() or the destructor releases them.  Whenever no tone is Running
\* the instance holds either nothing (never started, or stopped) or exactly
\* the completed tone's timer_data and pool.
C7_HeldUntilReleased ==
  /\ NotRunning =>
       \/ /\ cbStopAt = 0
          /\ _timerData = NULL /\ AliveData = {}
          /\ _alarmPool = NULL /\ pools = {}
          /\ alarms = {}
       \/ /\ cbStopAt # 0
          /\ _timerData # NULL /\ AliveData = {_timerData}
          /\ _alarmPool # NULL /\ pools = {_alarmPool}
          /\ alarms = {}
          /\ heap[_timerData].repeats >= heap[_timerData].numRepeats
  /\ snap # NoSnap => _timerData = NULL /\ _alarmPool = NULL

\* a tone has completed naturally and its schedule and pool are still held
C7_Witness ==
  /\ NotRunning /\ cbStopAt # 0
  /\ AliveData = {_timerData} /\ pools = {_alarmPool}

\* C8: a differential tone of N >= 1 toggles and level L > 0 that is neither
\* stopped nor superseded shows N half periods with exactly one lead at L
\* and the other at 0, the driven lead alternating (minus first, as tone()
\* leaves it), and then both leads at 0.  Half period k+1 is the one after
\* k invocations of the callback.
C8_DifferentialWaveform ==
  (/\ _diff /\ NoCallSince /\ TimerLive /\ SchedAlive
   /\ Sched.numRepeats >= 1 /\ Sched.level > 0) =>
    IF cbStopAt # 0
    THEN /\ cbCount = Sched.numRepeats
         /\ pwmLevel[_pinPlus] = 0 /\ pwmLevel[_pinMinus] = 0
    ELSE /\ cbCount < Sched.numRepeats
         /\ IF cbCount % 2 = 0
            THEN pwmLevel[_pinPlus] = 0 /\ pwmLevel[_pinMinus] = Sched.level
            ELSE pwmLevel[_pinPlus] = Sched.level /\ pwmLevel[_pinMinus] = 0

InTone == pc \in {"t131", "t133", "t138", "t148", "t150", "t153", "t166", "t170",
                  "t176", "t179", "halted_tone"}

\* C9: tone() tolerates degenerate timing: it divides by no zero half period
\* when it computes the toggle count, it registers no timer with a zero
\* period, and it does not stop in either.
C9_DegenerateTimingSafe ==
  InTone =>
    /\ faults \cap {"div_by_zero", "zero_period"} = {}
    /\ pc # "halted_tone"

\* C10 (as claimed): with a total toggle count of 0 no lead is at a non-zero
\* duty level between the return of tone() and Idle.
C10_SilentWhenZeroToggles ==
  (NoCallSince /\ TimerLive /\ SchedAlive /\ Sched.numRepeats = 0) => LeadsZero

\* C10 (amended): with a total toggle count of 0 the schedule never drives a
\* lead: its first invocation is its only one, it writes 0 to the plus lead
\* (and to the minus lead when differential) and drops the timer.  Until
\* that tick a lead can be non-zero: tone() writes the tone's level to the
\* minus lead when differential.
C10_ZeroTogglesOnlySilences ==
  (TimerLive /\ SchedAlive /\ Sched.numRepeats = 0) =>
    /\ cbCount <= 1
    /\ cbCount = 1 =>
         /\ cbStopAt = 1 /\ _timer.alarm_id = 0 /\ alarms = {}
         /\ Sched.repeats = 1 /\ Sched.high = FALSE
         /\ NoCallSince => LeadsZero
    /\ cbCount = 0 => cbStopAt = 0 /\ Sched.repeats = 0

\* a differential tone of zero toggles and non-zero level has had its tick
C10_Witness ==
  /\ _diff /\ pc = "main" /\ cbStopAt = 1
  /\ SchedAlive /\ Sched.numRepeats = 0 /\ Sched.level > 0

\* ------------------------------------------------ the arithmetic of tone()

\* the largest uint16_t duration
MaxU16 == 65535

\* the first tone() of an instance, up to the new schedule of lines 153-161,
\* over durations of the whole 16-bit range and half periods from 1 us to
\* half a second
ToggleFreqs == {1, 8, 440, 500, 1000, 20000, 500000}
ToggleDurations == {0, 1, 24, 25, 26, 499, 500, 501, 1000, 1136, 32767, 32768, MaxU16}

ToneToggle == \E freq \in ToggleFreqs, dur \in ToggleDurations, t \in {TIME_MS, TIME_US} :
                ToneCall(freq, 5004, dur, t)

NextToggle ==
  \/ ToneToggle
  \/ ToneSetPlus
  \/ ToneSetMinus
  \/ ToneNumRepeats
  \/ ToneCancel
  \/ ToneNew

SpecToggle == Init /\ [][NextToggle]_vars

\* the duration of the call in progress in microseconds, as line 140 or 143
\* scales it
DurationUs == IF time = TIME_MS THEN 1000 * duration ELSE duration

\* C11: for every 16-bit duration, every half period > 0 and both time
\* units the toggle count stored in the schedule is the quotient, rounded
\* down, of the duration in microseconds by the half period (0 when the
\* duration is shorter than one half period), and 1000 * duration stays
\* within 32 bits.
C11_ToggleCount ==
  pc = "t166" =>
    LET n == heap[_timerData].numRepeats
    IN /\ usPerWave > 0
       /\ n >= 0
       /\ n * usPerWave <= DurationUs
       /\ DurationUs < (n + 1) * usPerWave
       /\ DurationUs < usPerWave => n = 0
       /\ 1000 * duration <= U32Max

\* the longest duration in milliseconds against a half period that does not
\* divide it
C11_Witness ==
  /\ pc = "t166" /\ duration = MaxU16 /\ time = TIME_MS /\ usPerWave = 1136
  /\ heap[_timerData].numRepeats = 57689

\* tones of two toggles over a grid of volumes, in hundredths: tenths from
\* below 0 to above 100, and values between two tenths
VolumeGrid == {-500, -10, 0, 10, 20, 4990, 5000, 5004, 5006, 5010, 9990, 10000,
               10010, 12000, 20000}

ToneVolume == \E volume \in VolumeGrid : ToneCall(500, volume, 2, TIME_MS)

NextVolume ==
  \/ ToneVolume
  \/ ToneSetPlus
  \/ ToneSetMinus
  \/ ToneNumRepeats
  \/ ToneCancel
  \/ ToneDelete
  \/ ToneNew
  \/ TonePoolDestroy
  \/ TonePoolCreate
  \/ ToneAddTimer
  \/ ToneEnable
  \/ TimerCb

SpecVolume == Init /\ [][NextVolume]_vars

\* v clamped to 0..100, in hundredths
ClampedTo100(v) == IF v < 0 THEN 0 ELSE IF v > 100 * 100 THEN 100 * 100 ELSE v

\* l is 10 * c rounded to the nearest integer, c in hundredths
IsNearestTenth(l, c) == 10 * l - 5 <= c /\ c <= 10 * l + 4

\* C12: for every requested volume the resolved level is 10 times the
\* clamped volume, rounded, it lies in 0..1000 and it does not decrease when
\* the volume increases (a volume resolving below the level in force is
\* below every volume resolving to it); every duty level written to a lead
\* or kept in a schedule is in 0..1000.
C12_LevelRange ==
  /\ \A v \in VolumeGrid :
       /\ IsNearestTenth(ResolveLevel(v), ClampedTo100(v))
       /\ ResolveLevel(v) \in 0..TOP
       /\ ResolveLevel(v) < _level =>
            \A w \in VolumeGrid : ResolveLevel(w) = _level => v < w
  /\ _level \in 0..TOP
  /\ \A p \in Pins : pwmLevel[p] \in 0..TOP
  /\ \A h \in AliveData : heap[h].level \in 0..TOP
  /\ pc # "main" \/ _timerData # NULL => \E v \in VolumeGrid : _level = ResolveLevel(v)

\* the first tick of a tone of volume 50.06 drives the plus lead at 501
C12_Witness ==
  /\ _diff /\ pc = "main" /\ cbCount = 1
  /\ pwmLevel[_pinPlus] = 501 /\ pwmLevel[_pinMinus] = 0

\* the first tone() of an instance, one second at volume 50, over a grid of
\* frequencies in Hz from 1 Hz to above 1 MHz
FreqGrid == {1, 3, 7, 8, 64, 100, 320, 440, 500, 880, 1000, 1600, 8000, 20000,
             40000, 200000, 500000, 1000000, 2000000}

ToneFreq == \E freq \in FreqGrid : ToneCall(freq, 5000, 1000, TIME_MS)

NextFreq ==
  \/ ToneFreq
  \/ ToneSetPlus
  \/ ToneSetMinus
  \/ ToneNumRepeats
  \/ ToneCancel
  \/ ToneNew

SpecFreq == Init /\ [][NextFreq]_vars

\* h is 1e6 / (2 f) rounded to the nearest integer
IsNearestHalfPeriod(h, f) == 2 * h * f - f <= 1000000 /\ 1000000 <= 2 * h * f + f

\* C13: for every frequency f > 0 freq_to_us(f) is 1e6 / (2 f) rounded to the
\* nearest integer and it does not increase with f (a frequency with a half
\* period above the one in force is below every frequency that yields it);
\* tone(440, 50, 1000, TIME_MS) resolves to half period 1136, 880 toggles and
\* level 500.
C13_HalfPeriod ==
  /\ \A f \in FreqGrid :
       /\ IsNearestHalfPeriod(freq_to_us(f), f)
       /\ freq_to_us(f) >= 0
       /\ pc # "main" /\ freq_to_us(f) > usPerWave =>
            \A g \in FreqGrid : freq_to_us(g) = usPerWave => f < g
  /\ pc # "main" => \E f \in FreqGrid : usPerWave = freq_to_us(f)
  /\ freq_to_us(440) = 1136
  /\ pc = "t166" /\ usPerWave = 1136 =>
       /\ heap[_timerData].numRepeats = 880
       /\ heap[_timerData].level = 500

\* the schedule of tone(440, 50, 1000, TIME_MS)
C13_Witness ==
  /\ pc = "t166" /\ usPerWave = 1136 /\ duration = 1000 /\ time = TIME_MS
  /\ heap[_timerData].numRepeats = 880 /\ heap[_timerData].level = 500

\* the registered timer has had exactly one invocation and no call followed
AfterFirstTick == TimerLive /\ SchedAlive /\ cbCount = 1 /\ NoCallSince

PlusDriven == pwmLevel[_pinPlus] = Sched.level /\ (_diff => pwmLevel[_pinMinus] = 0)

\* C14 (as claimed): whatever the total toggle count, the first invocation
\* of timer_cb sets the plus lead to the configured level (and the minus
\* lead to 0 when differential).
C14_FirstTickDrives ==
  AfterFirstTick => PlusDriven

\* C14 (amended): for a total toggle count of 2 or more the first invocation
\* sets the plus lead to the configured level (and the minus lead to 0 when
\* differential) and leaves the phase flag high; for a total of 0 or 1 the
\* first invocation is the last one and sets the leads to 0.
C14_FirstTickDrivesFromTwo ==
  AfterFirstTick =>
    IF Sched.numRepeats >= 2
    THEN PlusDriven /\ Sched.high /\ cbStopAt = 0 /\ _timer.alarm_id # 0
    ELSE LeadsZero /\ ~Sched.high /\ cbStopAt = 1 /\ _timer.alarm_id = 0

\* the first tick of a differential tone of two toggles has driven the plus lead
C14_Witness ==
  /\ AfterFirstTick /\ _diff /\ pc = "main"
  /\ Sched.numRepeats = 2 /\ Sched.level > 0
  /\ pwmLevel[_pinPlus] = Sched.level /\ pwmLevel[_pinMinus] = 0

\* a step is an invocation of timer_cb
IsTick == cbCount' = cbCount + 1

\* the rule of timer_cb for one invocation, the phase flag being inverted
\* when flip holds
TickRule(flip) ==
  LET h == _timer.user_data
      td == heap[h]
      ud == heap'[h]
      continue == ud.repeats < td.numRepeats
  IN /\ heap[h].alive /\ _timer.alarm_id # 0
     /\ ud.repeats = td.repeats + 1
     /\ IF continue
        THEN IF td.high
             THEN /\ pwmLevel'[td.pinPlus] = 0
                  /\ td.diff => pwmLevel'[td.pinMinus] = td.level
             ELSE /\ pwmLevel'[td.pinPlus] = td.level
                  /\ td.diff => pwmLevel'[td.pinMinus] = 0
        ELSE /\ pwmLevel'[td.pinPlus] = 0
             /\ td.diff => pwmLevel'[td.pinMinus] = 0
     /\ ~td.diff => pwmLevel'[PinMinusArg] = pwmLevel[PinMinusArg]
     /\ ud.high = IF flip THEN ~td.high ELSE td.high
     /\ (_timer'.alarm_id # 0) = continue
     /\ (alarms' # {}) = continue
     /\ ud = [td EXCEPT !.repeats = ud.repeats, !.high = ud.high]
     /\ \A g \in Handles \ {h} : heap'[g] = heap[g]

\* C15 (as claimed): every invocation of timer_cb increments the counter by
\* 1, drives the leads by the phase flag when the counter is below the total
\* and silences them otherwise, inverts the phase flag, returns 'continue'
\* exactly when the counter is below the total, and changes nothing else of
\* the schedule.
C15_FiveSteps == [][IsTick => TickRule(TRUE)]_vars

\* C15 (amended): as claimed, but the phase flag is inverted only by the
\* invocations that return 'continue'; the final invocation returns before
\* line 249 and leaves the flag as it was.
C15_FiveStepsFlipOnContinue ==
  [][IsTick => TickRule(heap'[_timer.user_data].repeats < heap[_timer.user_data].numRepeats)]_vars

\* a tick taken with the phase flag high has driven the minus lead
C15_Witness ==
  /\ TimerLive /\ SchedAlive /\ _diff /\ NoCallSince
  /\ cbCount = 2 /\ cbStopAt = 0 /\ ~Sched.high /\ Sched.level > 0
  /\ pwmLevel[_pinPlus] = 0 /\ pwmLevel[_pinMinus] = Sched.level

\* the timer mechanism keeps delivering the ticks of a registered timer
SpecLive == Init /\ [][Next]_vars /\ WF_vars(TimerCb)

\* a tone is Running, no call is in progress, and its toggle count is one
\* the bounded run can complete
RunningTone ==
  /\ pc = "main" /\ _timer.alarm_id # 0 /\ SchedAlive
  /\ Sched.numRepeats <= MaxCb

\* the tone has reached Idle by itself: the callback has returned false, the
\* timer is gone and the leads are at 0
IdleByItself == cbStopAt # 0 /\ _timer.alarm_id = 0 /\ alarms = {} /\ LeadsZero

\* C16: with ticks delivered and no further call, every tone started by
\* tone() reaches Idle: the callback returns false, and from then until the
\* next call it is not invoked and the leads stay at 0.  At the top of the
\* 32-bit range the counter reaches the total without wrapping.
C16_EventuallyIdle ==
  /\ RunningTone ~> (IdleByItself \/ pc # "main")
  /\ [](cbStopAt # 0 /\ pc = "main" => IdleByItself /\ cbCount = cbStopAt)
  /\ [](SchedAlive =>
          /\ ~timer_cb([Sched EXCEPT !.numRepeats = U32Max, !.repeats = U32Max - 1],
                       pwmLevel).ret
          /\ timer_cb([Sched EXCEPT !.numRepeats = U32Max, !.repeats = U32Max - 2],
                      pwmLevel).ret)

\* a tone of four toggles has run to its end
C16_Witness ==
  /\ pc = "main" /\ IdleByItself /\ SchedAlive
  /\ Sched.numRepeats = 4 /\ cbStopAt = 4

\* stop_tone() has returned and tone() has not been called since
AfterStop == snap # NoSnap

\* C17: once stop_tone() has returned, and until the next tone() call, no
\* callback fires, no timer is registered and the leads stay at 0, whatever
\* state it was called in and wherever the callback fell among its statements.
C17_QuietAfterStop ==
  /\ [](AfterStop => LeadsZero /\ alarms = {} /\ _timer.alarm_id = 0)
  /\ [][AfterStop => ~IsTick /\ pwmLevel' = pwmLevel]_vars

\* stop_tone() has returned after a differential tone of non-zero level
C17_Witness ==
  /\ AfterStop /\ pc = "main" /\ snap[2] = 1
  /\ _diff /\ _level > 0 /\ _numRepeats >= 2

\* the levels configured for the tone in force: the one of the schedule the
\* timer runs on and, inside tone() and stop_tone(), the one the instance holds
CurrentLevels ==
  (IF SchedAlive THEN {Sched.level} ELSE {})
  \cup (IF InTone \/ InStop THEN {_level} ELSE {})

\* the destructor has been entered
InDtor == pc \in {"d88", "d89", "destroyed", "halted_dtor"}

\* C18: in single-ended mode the constructor, tone(), the ticks of timer_cb
\* and stop_tone() write a duty level to no minus lead (the instance has no
\* minus pin, no schedule carries one, and the pin a differential instance
\* would use stays as it was), and the plus lead only ever carries 0 or the
\* configured level of the current tone.
C18_SingleEndedFrame ==
  /\ [](~_diff =>
          /\ _pinMinus = NoPin
          /\ pwmLevel[PinMinusArg] = 0
          /\ \A h \in AliveData : heap[h].pinMinus = NoPin /\ ~heap[h].diff
          /\ ~InDtor => pwmLevel[_pinPlus] \in {0} \cup CurrentLevels)
  /\ [][~_diff => pwmLevel'[PinMinusArg] = pwmLevel[PinMinusArg]]_vars

\* tone() returns from a call made while a tone was Running, and the new
\* schedule has not ticked yet
SupersedeReturns ==
  pc = "t179" /\ pc' = "main" /\ atCall = "running" /\ cbCount = 0

\* C19: when tone() supersedes a Running tone, whatever the old schedule's
\* callback did between the statements of tone(), at the return the plus lead
\* is at 0 and the minus lead of a differential instance at the new level,
\* and afterwards every lead carries 0 or the level of the schedule in force
\* and the two leads are never non-zero together.
C19_TornDownFirst ==
  /\ [][SupersedeReturns =>
          /\ pwmLevel'[_pinPlus] = 0
          /\ _diff => pwmLevel'[_pinMinus] = _level]_vars
  /\ [](NoCallSince /\ SchedAlive =>
          /\ pwmLevel[_pinPlus] \in {0, Sched.level}
          /\ _diff => /\ pwmLevel[_pinMinus] \in {0, Sched.level}
                      /\ ~(pwmLevel[_pinPlus] > 0 /\ pwmLevel[_pinMinus] > 0))

\* the toggle counts the formulas of lines 140 and 143 give for the call in
\* progress
FreshRepeats == {duration \div usPerWave, (1000 * duration) \div usPerWave}

\* C20: every call of tone() establishes a fresh schedule from its own
\* arguments and the pins of the instance: counter 0, phase flag low, the
\* level of the call, and a toggle count computed from the call's duration,
\* unit and half period (for a unit that is neither TIME_MS nor TIME_US, by
\* one of the two formulas), never a count left by an earlier tone or never
\* initialised.
C20_FreshSchedule ==
  /\ [][pc = "t138" /\ pc' = "t148" /\ usPerWave > 0 =>
          /\ _numRepeats' \in FreshRepeats
          /\ time = TIME_US => _numRepeats' = duration \div usPerWave
          /\ time = TIME_MS => _numRepeats' = (1000 * duration) \div usPerWave]_vars
  /\ [](pc = "t166" =>
          /\ heap[_timerData].alive
          /\ heap[_timerData].repeats = 0 /\ ~heap[_timerData].high
          /\ heap[_timerData].level = _level
          /\ heap[_timerData].numRepeats = _numRepeats
          /\ heap[_timerData].pinPlus = _pinPlus
          /\ heap[_timerData].pinMinus = _pinMinus
          /\ heap[_timerData].diff = _diff)

====
